---- MODULE Spec2Model ----
(***************************************************************************)
(* A model of talend.py: the TalendProject registry (version table, job    *)
(* lookup, aggregates over the job-invocation graph), the TalendJob        *)
(* document (lazy XML parse, rule review) and the GitFile stream.          *)
(*                                                                         *)
(* Python values are modelled as follows.                                  *)
(*   str            a TLA+ string; slicing, split, replace, lower/upper    *)
(*                  and "in" are computed character by character.          *)
(*   float version  the number of hundredths (0.1 -> 10, 1.0 -> 100).      *)
(*   dict           an insertion-ordered dictionary [keys, map] where the  *)
(*                  iteration order is read by the code, a function where  *)
(*                  only membership and lookup are.                        *)
(*   exception      a status string ("KeyError", ...) in the result of the *)
(*                  operation; "ok" is a normal return.                    *)
(*   XML element    [tag, attrib, children].                               *)
(***************************************************************************)
EXTENDS Integers, Sequences, FiniteSets, TLC

VARIABLES
    items,      \* the listing returned by _get_item_paths
    loaded,     \* how many items of the listing _load has processed
    versions,   \* TalendProject.versions
    jobs,       \* TalendProject.jobs: path -> TalendJob
    docs,       \* the content GitFile.get_stream yields for each path
    result      \* the outcome of the last operation

vars == <<items, loaded, versions, jobs, docs, result>>

(***************************************************************************)
(* Bounds of the model.                                                    *)
(***************************************************************************)
\* the longest file listing explored by the loading specification
MaxItems == 3
\* the depth at which a recursion is cut off and reported as RecursionError;
\* it exceeds the number of jobs of every registry explored
RecursionLimit == 4
\* the number of times one job's stream may be opened
MaxOpens == 2

(***************************************************************************)
(* Strings.                                                                *)
(***************************************************************************)
Char(s, i) == SubSeq(s, i, i)

\* sub in s
Contains(s, sub) ==
    \E i \in 1..(Len(s) - Len(sub) + 1) : SubSeq(s, i, i + Len(sub) - 1) = sub

\* s.split(ch)[-1]
AfterLast(s, ch) ==
    LET hits == {i \in 1..Len(s) : Char(s, i) = ch}
    IN  IF hits = {} THEN s
        ELSE SubSeq(s, (CHOOSE i \in hits : \A k \in hits : k <= i) + 1, Len(s))

\* s[:-n]
DropLast(s, n) == IF Len(s) <= n THEN "" ELSE SubSeq(s, 1, Len(s) - n)

UpperLetters == "ABCDEFGHIJKLMNOPQRSTUVWXYZ"
LowerLetters == "abcdefghijklmnopqrstuvwxyz"

Translate(c, from, to) ==
    IF \E i \in 1..Len(from) : Char(from, i) = c
    THEN Char(to, CHOOSE i \in 1..Len(from) : Char(from, i) = c)
    ELSE c

RECURSIVE MapChars(_, _, _)
MapChars(s, from, to) ==
    IF s = "" THEN ""
    ELSE Translate(Char(s, 1), from, to) \o MapChars(SubSeq(s, 2, Len(s)), from, to)

\* s.lower(), s.upper()
Lower(s) == MapChars(s, UpperLetters, LowerLetters)
Upper(s) == MapChars(s, LowerLetters, UpperLetters)

\* s.replace(ch, '')
RECURSIVE RemoveChar(_, _)
RemoveChar(s, ch) ==
    IF s = "" THEN ""
    ELSE (IF Char(s, 1) = ch THEN "" ELSE Char(s, 1))
         \o RemoveChar(SubSeq(s, 2, Len(s)), ch)

\* s.strip(ch)
RECURSIVE Strip(_, _)
Strip(s, ch) ==
    IF s = "" THEN ""
    ELSE IF Char(s, 1) = ch THEN Strip(SubSeq(s, 2, Len(s)), ch)
    ELSE IF Char(s, Len(s)) = ch THEN Strip(SubSeq(s, 1, Len(s) - 1), ch)
    ELSE s

Digits == "0123456789"
DigitVal(c) == (CHOOSE i \in 1..Len(Digits) : Char(Digits, i) = c) - 1

RECURSIVE ParseInt(_)
ParseInt(s) ==
    IF s = "" THEN 0
    ELSE ParseInt(SubSeq(s, 1, Len(s) - 1)) * 10 + DigitVal(Char(s, Len(s)))

\* float(s) for a decimal numeral with at most two fraction digits, in hundredths
ParseFloat(s) ==
    LET dots == {i \in 1..Len(s) : Char(s, i) = "."}
    IN  IF dots = {} THEN ParseInt(s) * 100
        ELSE LET d    == CHOOSE i \in dots : TRUE
                 frac == SubSeq(s, d + 1, Len(s))
             IN  ParseInt(SubSeq(s, 1, d - 1)) * 100
                 + (IF Len(frac) = 0 THEN 0
                    ELSE IF Len(frac) = 1 THEN ParseInt(frac) * 10
                    ELSE ParseInt(frac))

(***************************************************************************)
(* Dictionaries.                                                           *)
(***************************************************************************)
\* F applied to the value of v: v names the outcome of a call that the
\* caller makes once and then reads several times
Bind(v, F(_)) == CHOOSE out \in {F(x) : x \in {v}} : TRUE

EmptyMap == [k \in {} |-> ""]
Put(f, k, v) == (k :> v) @@ f

EmptyDict == [keys |-> <<>>, map |-> EmptyMap]
DictSet(d, k, v) ==
    [keys |-> IF k \in DOMAIN d.map THEN d.keys ELSE Append(d.keys, k),
     map  |-> Put(d.map, k, v)]

\* the value Python's None is given where it is used as a dictionary key
None == "<None>"

(***************************************************************************)
(* XML elements.                                                           *)
(***************************************************************************)
Element(tag, attrib, children) ==
    [tag |-> tag, attrib |-> attrib, children |-> children]

\* <elementParameter name=".." value=".."/>
EP(name, value) ==
    Element("elementParameter", ("name" :> name) @@ ("value" :> value), <<>>)

\* <node componentName=".."> .. </node>
NodeElem(componentName, params) ==
    Element("node", "componentName" :> componentName, params)

\* <context name=".."> <contextParameter name=".." value=".."/> .. </context>
ContextElem(name, params) ==
    Element("context", "name" :> name, params)
CP(name, value) ==
    Element("contextParameter", ("name" :> name) @@ ("value" :> value), <<>>)

\* <connection connectorName=".."> .. </connection>
ConnElem(connectorName, params) ==
    Element("connection", "connectorName" :> connectorName, params)

\* what get_stream yields: xml is "ok" or "malformed" (ET.parse raises), rc is the
\* status close reports ("ok" for None), root the children of the root element
Document(xml, rc, root) == [xml |-> xml, rc |-> rc, root |-> root]

(***************************************************************************)
(* TalendJob and GitFile.                                                  *)
(***************************************************************************)
\* GitFile.__init__; opened and closed count the streams handed out by
\* get_stream and the calls of close on them
GitFile(child) == [child |-> child, opened |-> 0, closed |-> 0]

\* TalendJob.__init__ with parse=False; use_teradata starts as None, which
\* the code only ever tests for truth, so it is modelled as FALSE
TalendJob(name, path, version) ==
    [name         |-> name,
     path         |-> path,
     version      |-> version,
     nodes        |-> EmptyDict,
     connections  |-> EmptyDict,
     context      |-> EmptyDict,
     children     |-> <<>>,
     gitfile      |-> GitFile(path),
     use_teradata |-> FALSE,
     use_files    |-> FALSE,
     parsed       |-> FALSE,
     tables       |-> {}]

(***************************************************************************)
(* TalendProject._load: the loop over the listing.                         *)
(***************************************************************************)
NameOf(i) == DropLast(AfterLast(i, "/"), 9)
VersionOf(i) == ParseFloat(DropLast(AfterLast(i, "_"), 5))

\* the branch of _load that updates LATEST
UpdateLatest(entry, version) ==
    IF version > entry.LATEST THEN version ELSE entry.LATEST

\* one iteration of the loop: versions after item i
LoadVersions(vs, i) ==
    LET name    == NameOf(i)
        version == VersionOf(i)
    IN  IF name \in DOMAIN vs.map
        THEN DictSet(vs, name, [paths  |-> Put(vs.map[name].paths, version, i),
                                LATEST |-> UpdateLatest(vs.map[name], version)])
        ELSE DictSet(vs, name, [paths |-> (version :> i), LATEST |-> version])

\* one iteration of the loop: jobs after item i
LoadJobs(js, i) == Put(js, i, TalendJob(NameOf(i), i, VersionOf(i)))

RECURSIVE LoadAll(_, _)
\* the whole loop over a listing: [versions, jobs]
LoadAll(listing, n) ==
    IF n = 0 THEN [versions |-> EmptyDict, jobs |-> EmptyMap]
    ELSE LET prev == LoadAll(listing, n - 1)
         IN  [versions |-> LoadVersions(prev.versions, listing[n]),
              jobs     |-> LoadJobs(prev.jobs, listing[n])]

\* TalendProject.__getitem__: [status, path]
Lookup(vs, js, job_name) ==
    IF Contains(job_name, "item")
    THEN IF job_name \in DOMAIN js
         THEN [status |-> "ok", path |-> job_name]
         ELSE [status |-> "KeyError"]
    ELSE IF job_name \in DOMAIN vs.map
         THEN [status |-> "ok",
               path |-> vs.map[job_name].paths[vs.map[job_name].LATEST]]
         ELSE [status |-> "KeyError"]

(***************************************************************************)
(* TalendJob.parse.                                                        *)
(***************************************************************************)
Ok(r) == r.status = "ok"

RECURSIVE NodeParams(_, _)
\* the loop collecting a node's elementParameter values, over its first n
\* children: [status, params]
NodeParams(children, n) ==
    IF n = 0 THEN [status |-> "ok", params |-> EmptyMap]
    ELSE Bind(NodeParams(children, n - 1), LAMBDA prev :
         LET e == children[n]
         IN  IF ~Ok(prev) THEN prev
             ELSE IF Contains(e.tag, "elementParameter") /\ "value" \in DOMAIN e.attrib
             THEN IF "name" \in DOMAIN e.attrib
                  THEN [status |-> "ok",
                        params |-> Put(prev.params, e.attrib["name"], e.attrib["value"])]
                  ELSE [status |-> "KeyError", params |-> prev.params]
             ELSE prev)

\* the table name added for a node: (dbname + '.' + table).replace('"', '')
TableName(params) ==
    LET dbname == IF "DBNAME" \in DOMAIN params THEN params["DBNAME"] ELSE ""
    IN  RemoveChar(dbname \o "." \o params["TABLE"], "\"")

\* the branch of parse for a 'node' element: [status, job]
ParseNode(job, node) ==
    Bind(NodeParams(node.children, Len(node.children)), LAMBDA p :
        IF ~Ok(p) THEN [status |-> "KeyError", job |-> job]
        ELSE IF "ACTIVATE" \in DOMAIN p.params /\ p.params["ACTIVATE"] = "false"
        THEN [status |-> "ok", job |-> job]
        ELSE IF "componentName" \notin DOMAIN node.attrib
        THEN [status |-> "KeyError", job |-> job]
        ELSE
        LET cn     == node.attrib["componentName"]
            params == Put(p.params, "_componentName", cn)
            j1 == [job EXCEPT
                     !.use_teradata = @ \/ Contains(Lower(cn), "teradata"),
                     !.use_files    = @ \/ Contains(Lower(cn), "file")]
        IN  IF "UNIQUE_NAME" \notin DOMAIN params
            THEN [status |-> "KeyError", job |-> j1]
            ELSE
            LET j2 == [j1 EXCEPT !.nodes = DictSet(@, params["UNIQUE_NAME"], params)]
            IN  IF cn = "tRunJob" /\ "PROCESS" \notin DOMAIN params
                THEN [status |-> "KeyError", job |-> j2]
                ELSE
                LET j3 == IF cn = "tRunJob"
                          THEN [j2 EXCEPT !.children = Append(@, params["PROCESS"])]
                          ELSE j2
                IN  [status |-> "ok",
                     job |-> IF "TABLE" \in DOMAIN params /\ params["TABLE"] # ""
                             THEN [j3 EXCEPT !.tables = @ \cup {TableName(params)}]
                             ELSE j3])

\* connection_activated before any ACTIVATE parameter is seen (False)
NotActivated == "<False>"

RECURSIVE ConnParams(_, _)
\* the loop over a connection's children, over its first n children:
\* [status, activated, name]
ConnParams(children, n) ==
    IF n = 0 THEN [status |-> "ok", activated |-> NotActivated, name |-> None]
    ELSE Bind(ConnParams(children, n - 1), LAMBDA prev :
         LET e == children[n]
         IN  IF ~Ok(prev) THEN prev
             ELSE IF ~Contains(e.tag, "elementParameter") THEN prev
             ELSE IF "name" \notin DOMAIN e.attrib
             THEN [prev EXCEPT !.status = "KeyError"]
             ELSE IF e.attrib["name"] = "ACTIVATE"
             THEN IF "value" \in DOMAIN e.attrib
                  THEN [prev EXCEPT !.activated = e.attrib["value"]]
                  ELSE [prev EXCEPT !.status = "KeyError"]
             ELSE IF e.attrib["name"] = "UNIQUE_NAME"
             THEN IF "value" \in DOMAIN e.attrib
                  THEN [prev EXCEPT !.name = e.attrib["value"]]
                  ELSE [prev EXCEPT !.status = "KeyError"]
             ELSE prev)

\* the branch of parse for a 'connection' element: [status, job]
ParseConnection(job, node) ==
    IF "connectorName" \notin DOMAIN node.attrib
    THEN [status |-> "KeyError", job |-> job]
    ELSE Bind(ConnParams(node.children, Len(node.children)), LAMBDA c :
             IF ~Ok(c) THEN [status |-> "KeyError", job |-> job]
             ELSE IF c.activated = "true"
             THEN [status |-> "ok",
                   job |-> [job EXCEPT !.connections =
                              DictSet(@, c.name, node.attrib["connectorName"])]]
             ELSE [status |-> "ok", job |-> job])

RECURSIVE ContextParams(_, _)
\* the loop over a context's children, over its first n children: [status, params]
ContextParams(children, n) ==
    IF n = 0 THEN [status |-> "ok", params |-> EmptyMap]
    ELSE Bind(ContextParams(children, n - 1), LAMBDA prev :
         LET e == children[n]
         IN  IF ~Ok(prev) THEN prev
             ELSE IF "name" \in DOMAIN e.attrib /\ "value" \in DOMAIN e.attrib
             THEN [status |-> "ok",
                   params |-> Put(prev.params, e.attrib["name"], e.attrib["value"])]
             ELSE [status |-> "KeyError", params |-> prev.params])

\* the branch of parse for a 'context' element: [status, job]
ParseContext(job, node) ==
    IF "name" \notin DOMAIN node.attrib
    THEN [status |-> "KeyError", job |-> job]
    ELSE Bind(ContextParams(node.children, Len(node.children)), LAMBDA c :
             IF ~Ok(c) THEN [status |-> "KeyError", job |-> job]
             ELSE [status |-> "ok",
                   job |-> [job EXCEPT !.context =
                              DictSet(@, node.attrib["name"], c.params)]])

\* one iteration of the loop over the root's children: [status, job]
ParseElement(job, node) ==
    IF Contains(node.tag, "node") THEN ParseNode(job, node)
    ELSE IF Contains(node.tag, "connection") THEN ParseConnection(job, node)
    ELSE IF Contains(node.tag, "context") THEN ParseContext(job, node)
    ELSE [status |-> "ok", job |-> job]

RECURSIVE ParseElements(_, _, _)
\* the loop over the first n children of the root; it stops at the first
\* exception and keeps what the earlier iterations stored: [status, job]
ParseElements(job, root, n) ==
    IF n = 0 THEN [status |-> "ok", job |-> job]
    ELSE Bind(ParseElements(job, root, n - 1), LAMBDA prev :
             IF ~Ok(prev) THEN prev ELSE ParseElement(prev.job, root[n]))

\* AlreadyParsed without the flag read: parse reads the job again every time
AlreadyParsedIgnored(job) == FALSE

\* the guard of parse: a parsed job is not read again
AlreadyParsed(job) == job.parsed

\* TalendJob.parse on the content doc: [status, job]
Parse(job, doc) ==
    IF AlreadyParsed(job) THEN [status |-> "ok", job |-> job]
    ELSE
    LET j0 == [job EXCEPT !.gitfile.opened = @ + 1]
    IN  IF doc.xml # "ok" THEN [status |-> "ParseError", job |-> j0]
        ELSE
        LET j1 == [j0 EXCEPT !.gitfile.closed = @ + 1]
        IN  IF doc.rc # "ok" THEN [status |-> "TypeError", job |-> j1]
            ELSE
            Bind(ParseElements([j1 EXCEPT !.use_teradata = FALSE, !.use_files = FALSE],
                               doc.root, Len(doc.root)), LAMBDA r :
                IF Ok(r) THEN [status |-> "ok", job |-> [r.job EXCEPT !.parsed = TRUE]]
                ELSE r)

(***************************************************************************)
(* TalendJob.review: the rule tables and the rule engine.                  *)
(***************************************************************************)
check_params ==
    ("DIE_ON_ERROR" :> "true") @@ ("DIE_ON_CHILD_ERROR" :> "true")
    @@ ("USE_INDEPENDENT_PROCESS" :> "false")
    @@ ("TRANSMIT_ORIGINAL_CONTEXT" :> "true") @@ ("TRANSMIT_WHOLE_CONTEXT" :> "true")

file_params ==
    ("CREATEDIR" :> "false") @@ ("CREATE" :> "false") @@ ("MKDIR" :> "false")
    @@ ("CREATE_DIRECTORY" :> "false")

edw_params ==
    ("HOST" :> <<"context.EDW_HOST">>) @@ ("USER" :> <<"context.EDW_USER">>)
    @@ ("PASS" :> <<"context.EDW_PASS", "4D9onkGJm3fNdrQLmTZZevT3q6F0Z4TqEncrypt">>)

edw_context == <<"EDW_HOST", "EDW_USER", "EDW_PASS">>

Range(f) == {f[x] : x \in DOMAIN f}

\* the rule identifiers review reports under
RuleIds ==
    DOMAIN check_params \cup DOMAIN edw_params \cup DOMAIN file_params
    \cup {"ON_COMPONENT_ERROR", "CONTEXT", "QUERY"}

\* "Value '{0}' must be set to '{1}' (actual: '{2}')".format(..)
Message(param, expected, actual) ==
    "Value '" \o param \o "' must be set to '" \o expected
    \o "' (actual: '" \o actual \o "')"

\* the review pass's own disabled-node check
NodeDisabled(params) ==
    "ACTIVATE" \in DOMAIN params /\ params["ACTIVATE"] = "false"

\* the condition guarding the EDW checks of one node
EdwNode(job, params) ==
    /\ job.use_teradata
    /\ Contains(Lower(params["_componentName"]), "teradata")
    /\ \/ "USE_EXISTING_CONNECTION" \notin DOMAIN params
       \/ params["USE_EXISTING_CONNECTION"] = "false"

\* whether the node is reported under the rule
NodeHit(job, params, rule) ==
    /\ ~NodeDisabled(params)
    /\ rule \in DOMAIN params
    /\ \/ rule \in DOMAIN check_params /\ params[rule] # check_params[rule]
       \/ /\ rule \in DOMAIN edw_params
          /\ EdwNode(job, params)
          /\ params[rule] \notin Range(edw_params[rule])
       \/ /\ rule \in DOMAIN file_params
          /\ job.use_files
          /\ params[rule] # file_params[rule]

\* the record appended for a node reported under the rule
NodeViolation(node, params, rule) ==
    IF rule \in DOMAIN edw_params
    THEN [component |-> node,
          type      |-> params["TYPE"],
          message   |-> Message(rule, edw_params[rule][1],
                                IF Contains(params[rule], "Encrypt")
                                THEN "*ENCRYPTED*" ELSE params[rule])]
    ELSE [component |-> node,
          message   |-> Message(rule,
                                IF rule \in DOMAIN check_params
                                THEN check_params[rule] ELSE file_params[rule],
                                params[rule])]

RECURSIVE NodeViolations(_, _, _)
\* results[rule][name] after the loop over the first n nodes
NodeViolations(job, rule, n) ==
    IF n = 0 THEN <<>>
    ELSE LET node   == job.nodes.keys[n]
             params == job.nodes.map[node]
         IN  IF NodeHit(job, params, rule)
             THEN Append(NodeViolations(job, rule, n - 1),
                         NodeViolation(node, params, rule))
             ELSE NodeViolations(job, rule, n - 1)

\* the EDW report of some node reads a TYPE the node does not have
MissingType(job) ==
    \E node \in DOMAIN job.nodes.map : \E rule \in DOMAIN edw_params :
        /\ NodeHit(job, job.nodes.map[node], rule)
        /\ "TYPE" \notin DOMAIN job.nodes.map[node]

\* ctx_keys: the keys of the first context group
CtxKeys(job) == DOMAIN job.context.map[job.context.keys[1]]

RECURSIVE ContextViolations(_, _)
\* results['CONTEXT'][name] after the first n keys of edw_context
ContextViolations(job, n) ==
    IF n = 0 THEN <<>>
    ELSE Bind(ContextViolations(job, n - 1), LAMBDA prev :
             IF edw_context[n] \notin CtxKeys(job)
             THEN Append(prev,
                    [component |-> "Context",
                     message   |-> "Teradata job detected but missing context parameter '"
                                   \o edw_context[n] \o "'"])
             ELSE prev)

RECURSIVE ConnViolations(_, _)
\* results['ON_COMPONENT_ERROR'][name] after the first n connections
ConnViolations(job, n) ==
    IF n = 0 THEN <<>>
    ELSE LET conn == job.connections.keys[n]
         IN  IF job.connections.map[conn] \in {"COMPONENT_ERROR", "ON_COMPONENT_ERROR"}
             THEN Append(ConnViolations(job, n - 1),
                    [component |-> conn,
                     message   |-> "'OnComponentError' trigger depreciated. Use 'if' trigger instead."])
             ELSE ConnViolations(job, n - 1)

\* results[rule][name] at the end of review
RuleResult(job, rule) ==
    IF rule = "CONTEXT"
    THEN IF job.use_teradata THEN ContextViolations(job, Len(edw_context)) ELSE <<>>
    ELSE IF rule = "ON_COMPONENT_ERROR"
    THEN ConnViolations(job, Len(job.connections.keys))
    ELSE IF rule = "QUERY" THEN <<>>
    ELSE NodeViolations(job, rule, Len(job.nodes.keys))

\* the review of a parsed job: [status, val], val the mapping
\* {rule: {name: [violation, ..]}} of the rules with a violation
Rules(job) ==
    IF MissingType(job) THEN [status |-> "KeyError"]
    ELSE IF job.use_teradata /\ job.context.keys = <<>>
    THEN [status |-> "UnboundLocalError"]
    ELSE LET hit == {e \in RuleIds : RuleResult(job, e) # <<>>}
         IN  [status |-> "ok",
              val |-> [e \in hit |-> (job.name :> RuleResult(job, e))]]

\* TalendJob.review: [status, job, val]
Job_review(job) ==
    Bind(Parse(job, docs[job.path]), LAMBDA p :
        IF ~Ok(p) THEN p
        ELSE Bind(Rules(p.job), LAMBDA r :
                 IF Ok(r) THEN [status |-> "ok", job |-> p.job, val |-> r.val]
                 ELSE [status |-> r.status, job |-> p.job]))

(***************************************************************************)
(* TalendJob.get_database_info and TalendJob.dump_sql.                     *)
(***************************************************************************)
RECURSIVE DatabaseTriples(_, _)
\* info after the loop over the first n nodes
DatabaseTriples(job, n) ==
    IF n = 0 THEN <<>>
    ELSE LET node == job.nodes.map[job.nodes.keys[n]]
             host == IF "HOST" \in DOMAIN node THEN Upper(node["HOST"]) ELSE None
             dbname == IF "DBNAME" \in DOMAIN node
                       THEN Upper(Strip(node["DBNAME"], "\"")) ELSE None
             user == IF "USER" \in DOMAIN node THEN node["USER"] ELSE None
         IN  IF "USE_EXISTING_CONNECTION" \in DOMAIN node
                /\ node["USE_EXISTING_CONNECTION"] = "true"
             THEN DatabaseTriples(job, n - 1)
             ELSE IF host \notin {None, ""} /\ dbname \notin {None, ""}
             THEN Append(DatabaseTriples(job, n - 1), <<host, dbname, user>>)
             ELSE DatabaseTriples(job, n - 1)

\* TalendJob.get_database_info: [status, job, val]
Job_get_database_info(job) ==
    Bind(Parse(job, docs[job.path]), LAMBDA p :
        IF ~Ok(p) THEN p
        ELSE [status |-> "ok", job |-> p.job,
              val |-> DatabaseTriples(p.job, Len(p.job.nodes.keys))])

RECURSIVE SqlLines(_, _, _)
\* ret after the loop over the first n nodes
SqlLines(job, header, n) ==
    IF n = 0 THEN <<>>
    ELSE LET name == job.nodes.keys[n]
             node == job.nodes.map[name]
             schema == IF "DBNAME" \in DOMAIN node THEN node["DBNAME"] ELSE "???"
             head == IF header
                     THEN <<"-- Job Name:\t" \o job.name \o "\n-- Component:\t" \o name
                            \o "\n-- Schema:\t" \o schema>>
                     ELSE <<>>
         IN  IF NodeDisabled(node) \/ "QUERY" \notin DOMAIN node
             THEN SqlLines(job, header, n - 1)
             ELSE SqlLines(job, header, n - 1) \o head
                  \o <<RemoveChar(node["QUERY"], "\"")>>

RECURSIVE Join(_, _)
\* sep.join(lines)
Join(sep, lines) ==
    IF lines = <<>> THEN ""
    ELSE IF Len(lines) = 1 THEN lines[1]
    ELSE lines[1] \o sep \o Join(sep, Tail(lines))

\* TalendJob.dump_sql: [status, job, val]
Job_dump_sql(job, header) ==
    Bind(Parse(job, docs[job.path]), LAMBDA p :
        IF ~Ok(p) THEN p
        ELSE [status |-> "ok", job |-> p.job,
              val |-> Join("\n", SqlLines(p.job, header, Len(p.job.nodes.keys)))])

(***************************************************************************)
(* TalendProject: the aggregates.  Each takes the jobs mapping js and      *)
(* yields [status, jobs, val]: jobs is the mapping as the call leaves it   *)
(* (a parse or an in-place update of a dictionary is kept even when the    *)
(* call ends in an exception), val the value returned when status is "ok". *)
(* depth is the number of frames of the recursion.                         *)
(***************************************************************************)
Raise(status, js) == [status |-> status, jobs |-> js]
Return(js, val) == [status |-> "ok", jobs |-> js, val |-> val]

\* "if job:" is false for None and for the empty string
Truthy(job) == job \notin {None, ""}

\* MergeErrs with "ret[err] = child_errs[err]" done for every rule of the child
MergeErrsReplacingRule(ret, child_errs) == child_errs @@ ret

\* the merge of a child's review into ret: by rule, then dict.update by job name
MergeErrs(ret, child_errs) ==
    [err \in DOMAIN ret \cup DOMAIN child_errs |->
        IF err \notin DOMAIN child_errs THEN ret[err]
        ELSE IF err \notin DOMAIN ret THEN child_errs[err]
        ELSE child_errs[err] @@ ret[err]]

RECURSIVE ReviewAll(_, _)
\* the loop "for j in self: ret[j.name] = j.review()" over the first n names
ReviewAll(js, n) ==
    IF n = 0 THEN Return(js, EmptyMap)
    ELSE Bind(ReviewAll(js, n - 1), LAMBDA prev :
             IF ~Ok(prev) THEN prev
             ELSE Bind(Lookup(versions, prev.jobs, versions.keys[n]), LAMBDA l :
                      IF ~Ok(l) THEN Raise(l.status, prev.jobs)
                      ELSE Bind(Job_review(prev.jobs[l.path]), LAMBDA r :
                           LET j2 == Put(prev.jobs, l.path, r.job)
                           IN  IF ~Ok(r) THEN Raise(r.status, j2)
                               ELSE Return(j2, Put(prev.val, r.job.name, r.val)))))

RECURSIVE Project_review(_, _, _, _)
RECURSIVE ReviewChildren(_, _, _, _, _)
\* TalendProject.review
Project_review(js, job, children, depth) ==
    IF depth > RecursionLimit THEN Raise("RecursionError", js)
    ELSE IF ~Truthy(job) THEN ReviewAll(js, Len(versions.keys))
    ELSE Bind(Lookup(versions, js, job), LAMBDA l :
             IF ~Ok(l) THEN Raise(l.status, js)
             ELSE Bind(Job_review(js[l.path]), LAMBDA r :
                  LET j2 == Put(js, l.path, r.job)
                  IN  IF ~Ok(r) THEN Raise(r.status, j2)
                      ELSE IF ~children THEN Return(j2, r.val)
                      ELSE ReviewChildren(j2, r.val, r.job.children,
                                          Len(r.job.children), depth)))

\* the loop over the first n children, ret being the job's own review
ReviewChildren(js, ret, kids, n, depth) ==
    IF n = 0 THEN Return(js, ret)
    ELSE Bind(ReviewChildren(js, ret, kids, n - 1, depth), LAMBDA prev :
             IF ~Ok(prev) THEN prev
             ELSE Bind(Project_review(prev.jobs, kids[n], TRUE, depth + 1), LAMBDA c :
                      IF ~Ok(c) THEN c
                      ELSE Return(c.jobs, MergeErrs(prev.val, c.val))))

\* MergeParams with every "ctx[context][param] = ..." done, present or not
MergeParamsOverwriting(mine, childs) == childs @@ mine

\* "if param not in ctx[context]: ctx[context][param] = ..." over the
\* parameters of a child's group: the group's dictionary afterwards
MergeParams(mine, childs) == mine @@ childs

\* the group dictionary a merged context refers to: a merged context maps a
\* group name to the job that owns the dictionary object stored under it
Deref(js, owner, group) == js[owner].context.map[group]

\* the loop over a child's merged context cc, on the accumulator ctx: the
\* jobs afterwards (the dictionaries ctx refers to are updated in place)
MergeInto(js, ctx, cc) ==
    [p \in DOMAIN js |->
        LET hit == {g \in DOMAIN ctx \cap DOMAIN cc : ctx[g] = p /\ cc[g] # p}
        IN  IF hit = {} THEN js[p]
            ELSE [js[p] EXCEPT !.context.map =
                    [g \in DOMAIN @ |->
                        IF g \in hit
                        THEN MergeParams(@[g], Deref(js, cc[g], g))
                        ELSE @[g]]]]

\* the accumulator after the loop over a child's merged context
Adopt(ctx, cc) ==
    [g \in DOMAIN ctx \cup DOMAIN cc |-> IF g \in DOMAIN ctx THEN ctx[g] ELSE cc[g]]

RECURSIVE MergedRefs(_, _, _)
RECURSIVE MergeChildren(_, _, _, _, _)
\* TalendProject.get_merged_context, val being the mapping of references
MergedRefs(js, job, depth) ==
    IF depth > RecursionLimit THEN Raise("RecursionError", js)
    ELSE Bind(Lookup(versions, js, job), LAMBDA l :
             IF ~Ok(l) THEN Raise(l.status, js)
             ELSE MergeChildren(js,
                                [g \in DOMAIN js[l.path].context.map |-> l.path],
                                js[l.path].children, Len(js[l.path].children), depth))

\* the loop over the first n children
MergeChildren(js, ctx, kids, n, depth) ==
    IF n = 0 THEN Return(js, ctx)
    ELSE Bind(MergeChildren(js, ctx, kids, n - 1, depth), LAMBDA prev :
             IF ~Ok(prev) THEN prev
             ELSE Bind(MergedRefs(prev.jobs, kids[n], depth + 1), LAMBDA c :
                      IF ~Ok(c) THEN c
                      ELSE Return(MergeInto(c.jobs, prev.val, c.val),
                                  Adopt(prev.val, c.val))))

\* TalendProject.get_merged_context, val being the mapping returned as the
\* caller reads it: {group: {param: value}}
get_merged_context(js, job) ==
    Bind(MergedRefs(js, job, 1), LAMBDA r :
        IF ~Ok(r) THEN r
        ELSE Return(r.jobs, [g \in DOMAIN r.val |-> Deref(r.jobs, r.val[g], g)]))

\* SeenIn with the name compared with the host of each triple
SeenInByHost(child, ret) == \E i \in 1..Len(ret) : ret[i][1] = child

\* "child in ret": a job name (str) compared with the accumulated
\* (host, database, user) tuples; in Python a str never equals a tuple
SeenIn(child, ret) == \E i \in 1..Len(ret) : FALSE

RECURSIVE DbInfoAll(_, _)
\* the loop "for j in self: ret += j.get_database_info()" over the first n names
DbInfoAll(js, n) ==
    IF n = 0 THEN Return(js, <<>>)
    ELSE Bind(DbInfoAll(js, n - 1), LAMBDA prev :
             IF ~Ok(prev) THEN prev
             ELSE Bind(Lookup(versions, prev.jobs, versions.keys[n]), LAMBDA l :
                      IF ~Ok(l) THEN Raise(l.status, prev.jobs)
                      ELSE Bind(Job_get_database_info(prev.jobs[l.path]), LAMBDA r :
                           LET j2 == Put(prev.jobs, l.path, r.job)
                           IN  IF ~Ok(r) THEN Raise(r.status, j2)
                               ELSE Return(j2, prev.val \o r.val))))

RECURSIVE get_database_info(_, _, _, _)
RECURSIVE DbInfoChildren(_, _, _, _, _)
\* TalendProject.get_database_info
get_database_info(js, job, children, depth) ==
    IF depth > RecursionLimit THEN Raise("RecursionError", js)
    ELSE IF ~Truthy(job) THEN DbInfoAll(js, Len(versions.keys))
    ELSE Bind(Lookup(versions, js, job), LAMBDA l :
             IF ~Ok(l) THEN Raise(l.status, js)
             ELSE Bind(Job_get_database_info(js[l.path]), LAMBDA r :
                  LET j2 == Put(js, l.path, r.job)
                  IN  IF ~Ok(r) THEN Raise(r.status, j2)
                      ELSE IF ~children THEN Return(j2, r.val)
                      ELSE DbInfoChildren(j2, r.val, r.job.children,
                                          Len(r.job.children), depth)))

\* the loop over the first n children
DbInfoChildren(js, ret, kids, n, depth) ==
    IF n = 0 THEN Return(js, ret)
    ELSE Bind(DbInfoChildren(js, ret, kids, n - 1, depth), LAMBDA prev :
             IF ~Ok(prev) THEN prev
             ELSE IF SeenIn(kids[n], prev.val) THEN prev
             ELSE Bind(get_database_info(prev.jobs, kids[n], TRUE, depth + 1), LAMBDA c :
                      IF ~Ok(c) THEN c
                      ELSE Return(c.jobs, prev.val \o c.val)))

RECURSIVE ParseAll(_, _)
\* the loop of get_master_jobs over the first n names, as far as it parses
ParseAll(js, n) ==
    IF n = 0 THEN Return(js, {})
    ELSE Bind(ParseAll(js, n - 1), LAMBDA prev :
             IF ~Ok(prev) THEN prev
             ELSE Bind(Lookup(versions, prev.jobs, versions.keys[n]), LAMBDA l :
                      IF ~Ok(l) THEN Raise(l.status, prev.jobs)
                      ELSE Bind(Parse(prev.jobs[l.path], docs[l.path]), LAMBDA r :
                           LET j2 == Put(prev.jobs, l.path, r.job)
                           IN  IF ~Ok(r) THEN Raise(r.status, j2)
                               ELSE Return(j2, prev.val \cup Range(r.job.children)))))

\* "[j for j in masters if masters[j]]": every name a children list holds
\* was marked False (a name that is no key of versions is added as False)
Masters(names, referenced) == SelectSeq(names, LAMBDA j : j \notin referenced)

\* TalendProject.get_master_jobs: val is the list of the names left True
get_master_jobs(js) ==
    Bind(ParseAll(js, Len(versions.keys)), LAMBDA r :
        IF ~Ok(r) THEN r ELSE Return(r.jobs, Masters(versions.keys, r.val)))

RECURSIVE tree_view(_, _, _)
RECURSIVE TreeChildren(_, _, _, _, _)
RECURSIVE TreeMasters(_, _, _, _)
\* TalendProject.tree_view; root is None for the call without a root
tree_view(js, root, depth) ==
    IF depth > RecursionLimit THEN Raise("RecursionError", js)
    ELSE IF root \notin DOMAIN versions.map THEN Return(js, EmptyMap)
    ELSE IF Truthy(root)
    THEN Bind(Lookup(versions, js, root), LAMBDA l :
             IF ~Ok(l) THEN Raise(l.status, js)
             ELSE Bind(TreeChildren(js, EmptyMap, js[l.path].children,
                                    Len(js[l.path].children), depth), LAMBDA t :
                      IF ~Ok(t) THEN t ELSE Return(t.jobs, root :> t.val)))
    ELSE Bind(get_master_jobs(js), LAMBDA m :
             IF ~Ok(m) THEN m
             ELSE TreeMasters(m.jobs, m.val, Len(m.val), depth))

\* the loop over the first n children: tree[root] afterwards
TreeChildren(js, sub, kids, n, depth) ==
    IF n = 0 THEN Return(js, sub)
    ELSE Bind(TreeChildren(js, sub, kids, n - 1, depth), LAMBDA prev :
             IF ~Ok(prev) THEN prev
             ELSE Bind(tree_view(prev.jobs, kids[n], depth + 1), LAMBDA c :
                      IF ~Ok(c) THEN c
                      ELSE IF kids[n] \notin DOMAIN c.val
                      THEN Raise("KeyError", c.jobs)
                      ELSE Return(c.jobs, Put(prev.val, kids[n], c.val[kids[n]]))))

\* the loop over the first n masters: tree afterwards
TreeMasters(js, masters, n, depth) ==
    IF n = 0 THEN Return(js, EmptyMap)
    ELSE Bind(TreeMasters(js, masters, n - 1, depth), LAMBDA prev :
             IF ~Ok(prev) THEN prev
             ELSE Bind(tree_view(prev.jobs, masters[n], depth + 1), LAMBDA c :
                      IF ~Ok(c) THEN c
                      ELSE Return(c.jobs, c.val @@ prev.val)))

RECURSIVE AllTables(_, _)
\* the loop of get_all_tables over the first n names
AllTables(js, n) ==
    IF n = 0 THEN Return(js, {})
    ELSE Bind(AllTables(js, n - 1), LAMBDA prev :
             IF ~Ok(prev) THEN prev
             ELSE Bind(Lookup(versions, prev.jobs, versions.keys[n]), LAMBDA l :
                      IF ~Ok(l) THEN Raise(l.status, prev.jobs)
                      ELSE Bind(Parse(prev.jobs[l.path], docs[l.path]), LAMBDA r :
                           LET j2 == Put(prev.jobs, l.path, r.job)
                           IN  IF ~Ok(r) THEN Raise(r.status, j2)
                               ELSE Return(j2, prev.val \cup r.job.tables))))

\* TalendProject.get_all_tables: val is the set of the list returned
get_all_tables(js) == AllTables(js, Len(versions.keys))

RECURSIVE DumpAll(_, _, _)
\* the loop "for j in self: ret.append(j.dump_sql(header=header))"
DumpAll(js, header, n) ==
    IF n = 0 THEN Return(js, <<>>)
    ELSE Bind(DumpAll(js, header, n - 1), LAMBDA prev :
             IF ~Ok(prev) THEN prev
             ELSE Bind(Lookup(versions, prev.jobs, versions.keys[n]), LAMBDA l :
                      IF ~Ok(l) THEN Raise(l.status, prev.jobs)
                      ELSE Bind(Job_dump_sql(prev.jobs[l.path], header), LAMBDA r :
                           LET j2 == Put(prev.jobs, l.path, r.job)
                           IN  IF ~Ok(r) THEN Raise(r.status, j2)
                               ELSE Return(j2, Append(prev.val, r.val)))))

RECURSIVE dump_sql(_, _, _, _, _)
RECURSIVE DumpChildren(_, _, _, _, _, _)
\* TalendProject.dump_sql
dump_sql(js, job, children, header, depth) ==
    IF depth > RecursionLimit THEN Raise("RecursionError", js)
    ELSE IF Truthy(job) /\ children
    THEN Bind(Lookup(versions, js, job), LAMBDA l :
             IF ~Ok(l) THEN Raise(l.status, js)
             ELSE Bind(Job_dump_sql(js[l.path], FALSE), LAMBDA r :
                  LET j2 == Put(js, l.path, r.job)
                  IN  IF ~Ok(r) THEN Raise(r.status, j2)
                      ELSE Bind(DumpChildren(j2, <<r.val>>, r.job.children,
                                             Len(r.job.children), header, depth),
                                LAMBDA d :
                           IF ~Ok(d) THEN d ELSE Return(d.jobs, Join("\n", d.val)))))
    ELSE Bind(DumpAll(js, header, Len(versions.keys)), LAMBDA d :
             IF ~Ok(d) THEN d ELSE Return(d.jobs, Join("\n", d.val)))

\* the loop over the first n children
DumpChildren(js, ret, kids, n, header, depth) ==
    IF n = 0 THEN Return(js, ret)
    ELSE Bind(DumpChildren(js, ret, kids, n - 1, header, depth), LAMBDA prev :
             IF ~Ok(prev) THEN prev
             ELSE Bind(dump_sql(prev.jobs, kids[n], TRUE, header, depth + 1), LAMBDA c :
                      IF ~Ok(c) THEN c
                      ELSE Return(c.jobs, Append(prev.val, c.val))))

(***************************************************************************)
(* TalendJob.__getitem__ and TalendJob.__iter__.                           *)
(***************************************************************************)
\* TalendJob.__getitem__: [status, job, val]
Job_getitem(job, node) ==
    Bind(Parse(job, docs[job.path]), LAMBDA p :
        IF ~Ok(p) THEN p
        ELSE IF node \in DOMAIN p.job.nodes.map
        THEN [status |-> "ok", job |-> p.job, val |-> p.job.nodes.map[node]]
        ELSE [status |-> "KeyError", job |-> p.job])

\* TalendJob.__iter__, run to its end: [status, job, val]
Job_iter(job) ==
    Bind(Parse(job, docs[job.path]), LAMBDA p :
        IF ~Ok(p) THEN p
        ELSE [status |-> "ok", job |-> p.job,
              val |-> [n \in 1..Len(p.job.nodes.keys) |->
                          p.job.nodes.map[p.job.nodes.keys[n]]]])

(***************************************************************************)
(* The operations as actions.  result records the last call: its name, its *)
(* arguments, how it ended, the value it returned and the jobs mapping it  *)
(* started from.                                                           *)
(***************************************************************************)
Constructed == loaded = Len(items)

Outcome(op, job, children, r) ==
    IF Ok(r)
    THEN [op |-> op, job |-> job, children |-> children, status |-> "ok",
          val |-> r.val, before |-> jobs]
    ELSE [op |-> op, job |-> job, children |-> children, status |-> r.status,
          before |-> jobs]

\* a call on the project that leaves the jobs r.jobs
Finish(op, job, children, r) ==
    /\ Constructed
    /\ \A p \in DOMAIN r.jobs : r.jobs[p].gitfile.opened <= MaxOpens
    /\ jobs' = r.jobs
    /\ result' = Outcome(op, job, children, r)
    /\ UNCHANGED <<items, loaded, versions, docs>>

\* a call on the job stored under path p
FinishJob(op, p, r) ==
    Finish(op, p, FALSE,
           IF Ok(r) /\ "val" \in DOMAIN r
           THEN Return(Put(jobs, p, r.job), r.val)
           ELSE IF Ok(r) THEN Return(Put(jobs, p, r.job), "")
           ELSE Raise(r.status, Put(jobs, p, r.job)))

\* one discovery step of _load
LoadItem ==
    /\ loaded < Len(items)
    /\ versions' = LoadVersions(versions, items[loaded + 1])
    /\ jobs' = LoadJobs(jobs, items[loaded + 1])
    /\ loaded' = loaded + 1
    /\ result' = [op |-> "_load", job |-> items[loaded + 1], status |-> "ok"]
    /\ UNCHANGED <<items, docs>>

\* project[name]
DoLookup(name) ==
    /\ Constructed
    /\ result' = [op |-> "__getitem__", job |-> name]
                 @@ Lookup(versions, jobs, name)
    /\ UNCHANGED <<items, loaded, versions, jobs, docs>>

DoParse(p) == FinishJob("parse", p, Parse(jobs[p], docs[p]))
DoJobReview(p) == FinishJob("job.review", p, Job_review(jobs[p]))
DoJobDatabaseInfo(p) ==
    FinishJob("job.get_database_info", p, Job_get_database_info(jobs[p]))
DoJobDumpSql(p) == FinishJob("job.dump_sql", p, Job_dump_sql(jobs[p], FALSE))
DoGetNode(p, node) == FinishJob("job.__getitem__", p, Job_getitem(jobs[p], node))
DoIterate(p) == FinishJob("job.__iter__", p, Job_iter(jobs[p]))

DoReview(job, children) ==
    Finish("review", job, children, Project_review(jobs, job, children, 1))
DoMergedContext(job) ==
    Finish("get_merged_context", job, TRUE, get_merged_context(jobs, job))
DoDatabaseInfo(job, children) ==
    Finish("get_database_info", job, children,
           get_database_info(jobs, job, children, 1))
DoMasterJobs == Finish("get_master_jobs", None, TRUE, get_master_jobs(jobs))
DoTreeView(root) == Finish("tree_view", root, TRUE, tree_view(jobs, root, 1))
DoAllTables == Finish("get_all_tables", None, TRUE, get_all_tables(jobs))
DoDumpSql(job) == Finish("dump_sql", job, TRUE, dump_sql(jobs, job, TRUE, TRUE, 1))

\* the content behind a path changes (HEAD moves, a file is repaired)
ContentChanges(p, doc) ==
    /\ Constructed
    /\ docs[p] # doc
    /\ docs' = [docs EXCEPT ![p] = doc]
    /\ result' = [op |-> "content", job |-> p, status |-> "ok"]
    /\ UNCHANGED <<items, loaded, versions, jobs>>

(***************************************************************************)
(* The registries explored.  A project of three jobs A, B and C, one file  *)
(* each; the specifications differ in the documents behind the files.      *)
(***************************************************************************)
PathOf(name) == "process/" \o name \o "_0.1.item"
JobNames == {"A", "B", "C"}
Listing == <<PathOf("A"), PathOf("B"), PathOf("C")>>
Paths == Range(Listing)

\* a name no file of the listing yields
Unknown == "Z"

NoResult ==
    [op |-> "init", job |-> None, children |-> FALSE, status |-> "ok",
     val |-> "", before |-> EmptyMap]

\* the state TalendProject.__init__ leaves for the listing, the documents
\* behind the paths being one of docset
Project(listing, docset) ==
    /\ items = listing
    /\ loaded = Len(listing)
    /\ versions = LoadAll(listing, Len(listing)).versions
    /\ jobs = LoadAll(listing, Len(listing)).jobs
    /\ docs \in docset
    /\ result = NoResult

\* the i-th tRunJob node of a document, invoking process
RunJob(i, process) ==
    NodeElem("tRunJob",
             <<EP("UNIQUE_NAME", "tRunJob_" \o Char(Digits, i + 1)),
               EP("PROCESS", process)>>)
RunJobs(kids) == [i \in 1..Len(kids) |-> RunJob(i, kids[i])]

\* a readable, well-formed document
JobDoc(contexts, kids, nodes) == Document("ok", "ok", contexts \o RunJobs(kids) \o nodes)

\* the lists of at most two names of S
Lists(S) == {<<>>} \cup {<<x>> : x \in S} \cup {<<x, y>> : x \in S, y \in S}

(***************************************************************************)
(* Spec: the job-invocation graph.  A invokes at most two jobs, B and C at *)
(* most one, registered or not, in any order, cycles included.             *)
(***************************************************************************)
GraphKids(p) ==
    IF p = PathOf("A") THEN Lists(JobNames) \cup {<<Unknown>>}
    ELSE {<<>>} \cup {<<x>> : x \in JobNames \cup {Unknown}}

GraphDocs ==
    {d \in [Paths -> {JobDoc(<<>>, kids, <<>>) :
                        kids \in Lists(JobNames) \cup {<<Unknown>>}}] :
        \A p \in Paths : \E kids \in GraphKids(p) : d[p] = JobDoc(<<>>, kids, <<>>)}

Init == Project(Listing, GraphDocs)

Next ==
    \/ \E p \in Paths : DoParse(p)
    \/ DoMasterJobs
    \/ \E root \in JobNames \cup {None, Unknown} : DoTreeView(root)

Spec == Init /\ [][Next]_vars

\* the job registered under a name, in the jobs mapping js
JobOf(js, name) == js[Lookup(versions, js, name).path]
Registered == DOMAIN versions.map
AllParsed(js) == \A p \in DOMAIN js : js[p].parsed

\* the names the jobs of js list as children of the job registered as name
KidsOf(js, name) == Range(JobOf(js, name).children)

\* the forest of the master jobs: one key per master, mapped to the tree of
\* its children
Forest(js) ==
    LET m == get_master_jobs(js)
    IN  [name \in Range(m.val) |-> tree_view(m.jobs, name, 1).val[name]]

\* every master job has a tree
ForestDefined(js) ==
    LET m == get_master_jobs(js)
    IN  /\ Ok(m)
        /\ \A name \in Range(m.val) : Ok(tree_view(m.jobs, name, 1))

\* C1: treeView called with no root returns the forest rooted at all master
\* jobs: one top-level key per name masterJobs() returns, each mapped to the
\* nested tree of its children; it is empty only when a named root is unknown.
C1_ForestOfMasters ==
    (result.op = "tree_view" /\ result.job = None /\ ForestDefined(result.before))
    => /\ result.status = "ok"
       /\ result.val = Forest(result.before)

\* C5: masterJobs() returns exactly the registered names that no OTHER job
\* lists among its children, so a job invoked only by itself is a master.
C5_NoOtherInvoker ==
    (result.op = "get_master_jobs" /\ result.status = "ok")
    => Range(result.val) =
         {n \in Registered :
            \A m \in Registered \ {n} : n \notin KidsOf(jobs, m)}

\* what get_master_jobs computes: the registered names that no job, itself
\* included, lists among its children
MastersAreUnreferenced ==
    (result.op = "get_master_jobs" /\ result.status = "ok")
    => Range(result.val) =
         {n \in Registered : \A m \in Registered : n \notin KidsOf(jobs, m)}

(***************************************************************************)
(* SpecLoad: project loading.  The listing holds files of one job in       *)
(* several versions (one of them twice, in two directories), a file with a *)
(* two-digit minor version and a job whose name contains "item", in any    *)
(* order.                                                                  *)
(***************************************************************************)
ItemUniverse ==
    {"process/A_0.1.item", "process/A_0.2.item", "process/A_0.3.item",
     "process/old/A_0.2.item", "process/A_0.10.item", "process/items_0.1.item"}

\* the sequences of at most n distinct elements of S
RECURSIVE Listings(_, _)
Listings(S, n) ==
    IF n = 0 THEN {<<>>}
    ELSE LET shorter == Listings(S, n - 1)
         IN  shorter \cup {Append(l, x) : l \in shorter, x \in S}

InitLoad ==
    /\ items \in {l \in Listings(ItemUniverse, MaxItems) :
                    \A i, k \in 1..Len(l) : i # k => l[i] # l[k]}
    /\ loaded = 0
    /\ versions = EmptyDict
    /\ jobs = EmptyMap
    /\ docs = [p \in ItemUniverse |-> JobDoc(<<>>, <<>>, <<>>)]
    /\ result = NoResult

NextLoad ==
    \/ LoadItem
    \/ \E name \in Registered : DoLookup(name)

SpecLoad == InitLoad /\ [][NextLoad]_vars

\* max of a non-empty set of numbers
Max(S) == CHOOSE x \in S : \A y \in S : y <= x

\* LATEST is the maximum of the version keys recorded for the name
LatestIsMax ==
    \A name \in Registered :
        versions.map[name].LATEST = Max(DOMAIN versions.map[name].paths)

\* C6: after each discovery step, in every discovery order, LATEST is the
\* maximum of the version keys recorded for the name, and lookup(name)
\* returns the job with the greatest version.
C6_LatestAndLookup ==
    /\ LatestIsMax
    /\ result.op = "__getitem__"
       => /\ result.status = "ok"
          /\ jobs[result.path].name = result.job
          /\ jobs[result.path].version = Max(DOMAIN versions.map[result.job].paths)

\* lookup returns the job with the greatest version for the names that do
\* not contain "item"
LookupOfPlainName ==
    (result.op = "__getitem__" /\ ~Contains(result.job, "item"))
    => /\ result.status = "ok"
       /\ jobs[result.path].name = result.job
       /\ jobs[result.path].version = Max(DOMAIN versions.map[result.job].paths)

(***************************************************************************)
(* SpecReview: review over the children.  A invokes B and C in any order   *)
(* and number up to two, B may invoke C; every job has no, one or two      *)
(* nodes with a wrong DIE_ON_ERROR or DIE_ON_CHILD_ERROR.                  *)
(***************************************************************************)
JavaNode(name, params) == NodeElem("tJava", <<EP("UNIQUE_NAME", name)>> \o params)

ReviewNodes ==
    {<<>>,
     <<JavaNode("tJava_1", <<EP("DIE_ON_ERROR", "false")>>)>>,
     <<JavaNode("tJava_1", <<EP("DIE_ON_ERROR", "false"),
                             EP("DIE_ON_CHILD_ERROR", "false")>>),
       JavaNode("tJava_2", <<EP("DIE_ON_ERROR", "false")>>)>>}

ReviewKids(p) ==
    IF p = PathOf("A") THEN Lists({"B", "C"})
    ELSE IF p = PathOf("B") THEN {<<>>, <<"C">>}
    ELSE {<<>>}

ReviewDocs ==
    {d \in [Paths -> {JobDoc(<<>>, kids, nodes) :
                        kids \in Lists({"B", "C"}), nodes \in ReviewNodes}] :
        \A p \in Paths : \E kids \in ReviewKids(p), nodes \in ReviewNodes :
            d[p] = JobDoc(<<>>, kids, nodes)}

InitReview == Project(Listing, ReviewDocs)

NextReview ==
    \/ \E p \in Paths : DoParse(p)
    \/ \E job \in JobNames, children \in BOOLEAN : DoReview(job, children)

SpecReview == InitReview /\ [][NextReview]_vars

RECURSIVE ReachIn(_, _, _)
\* the names reached from the names of S in at most n steps along the
\* children lists
ReachIn(js, S, n) ==
    IF n = 0 THEN S
    ELSE LET R == ReachIn(js, S, n - 1)
         IN  R \cup UNION {KidsOf(js, m) : m \in R \cap Registered}

\* the names reached from job, job included
Reach(js, job) == ReachIn(js, {job}, Cardinality(Registered))

RECURSIVE Visits(_, _, _, _)
RECURSIVE VisitsBelow(_, _, _, _, _)
\* how many times the depth-first traversal from job visits name, counted
\* down to depth n
Visits(js, job, name, n) ==
    IF n = 0 \/ job \notin Registered THEN 0
    ELSE (IF job = name THEN 1 ELSE 0)
         + VisitsBelow(js, JobOf(js, job).children, Len(JobOf(js, job).children),
                       name, n)
VisitsBelow(js, kids, k, name, n) ==
    IF k = 0 THEN 0
    ELSE VisitsBelow(js, kids, k - 1, name, n) + Visits(js, kids[k], name, n - 1)

RECURSIVE Repeat(_, _)
\* the list l, k times over
Repeat(l, k) == IF k = 0 THEN <<>> ELSE Repeat(l, k - 1) \o l

\* a completed review of a job with its children
ReviewedWithChildren ==
    /\ result.op = "review"
    /\ result.children
    /\ result.status = "ok"

\* the list the Rule Engine gives the job registered as name under the rule
OwnList(js, name, rule) == RuleResult(JobOf(js, name), rule)

\* C2 as stated: under every rule-id and job-name the result holds the
\* concatenation of the lists of every visit, so a child reached k times
\* contributes its violations k times.
C2_Concatenated ==
    ReviewedWithChildren
    => \A rule \in RuleIds : \A name \in Reach(jobs, result.job) :
          OwnList(jobs, name, rule) # <<>>
          => /\ rule \in DOMAIN result.val
             /\ name \in DOMAIN result.val[rule]
             /\ result.val[rule][name] =
                  Repeat(OwnList(jobs, name, rule),
                         Visits(jobs, result.job, name, RecursionLimit))

\* C2 as amended: under every rule-id and job-name the result holds the
\* job's own Rule-Engine list once, however often the job is reached (the
\* list of a later visit replaces that of an earlier one), for exactly the
\* reached jobs that have a violation under the rule.
C2_OncePerJob ==
    ReviewedWithChildren
    => LET reached == Reach(jobs, result.job)
           hit(rule) == {name \in reached : OwnList(jobs, name, rule) # <<>>}
       IN  result.val =
             [rule \in {e \in RuleIds : hit(e) # {}} |->
                 [name \in hit(rule) |-> OwnList(jobs, name, rule)]]

\* a review in which a child with violations is reached twice and the job
\* itself has violations under the same rule
C2_Witness ==
    /\ ReviewedWithChildren
    /\ \E name \in Reach(jobs, result.job) \ {result.job} :
          /\ Visits(jobs, result.job, name, RecursionLimit) >= 2
          /\ \E rule \in DOMAIN result.val :
                {name, result.job} \subseteq DOMAIN result.val[rule]

(***************************************************************************)
(* SpecCtx: the contexts.  A invokes up to two of B and C, B invokes C or  *)
(* nothing; every job has no context, or one group holding x, or x and y,  *)
(* and the value of a parameter is the name of the job that defines it.    *)
(***************************************************************************)
CtxKids(name) ==
    IF name = "A" THEN Lists({"B", "C"})
    ELSE IF name = "B" THEN {<<>>, <<"C">>}
    ELSE {<<>>}

CtxGroups(name) ==
    {<<>>,
     <<ContextElem("Default", <<CP("x", name)>>)>>,
     <<ContextElem("Default", <<CP("x", name), CP("y", name)>>)>>,
     <<ContextElem("Prod", <<CP("x", name)>>)>>}

CtxDocsOf(name) ==
    {JobDoc(groups, kids, <<>>) : groups \in CtxGroups(name), kids \in CtxKids(name)}

CtxDocs ==
    {(PathOf("A") :> a) @@ (PathOf("B") :> b) @@ (PathOf("C") :> c) :
        a \in CtxDocsOf("A"), b \in CtxDocsOf("B"), c \in CtxDocsOf("C")}

InitCtx == Project(Listing, CtxDocs)

NextCtx ==
    \/ DoAllTables
    \/ DoMasterJobs
    \/ \E job \in JobNames : DoMergedContext(job)
    \/ \E root \in JobNames : DoTreeView(root)
    \/ DoReview("A", TRUE)
    \/ DoDatabaseInfo("A", TRUE)
    \/ DoDumpSql("A")

SpecCtx == InitCtx /\ [][NextCtx]_vars

RECURSIVE Preorder(_, _)
RECURSIVE PreorderBelow(_, _, _)
\* the jobs of the depth-first traversal from name in the order it reaches
\* them: a job, then what each entry of its children list reaches, in list
\* order
Preorder(js, name) ==
    <<name>> \o PreorderBelow(js, JobOf(js, name).children,
                              Len(JobOf(js, name).children))
PreorderBelow(js, kids, n) ==
    IF n = 0 THEN <<>>
    ELSE PreorderBelow(js, kids, n - 1) \o Preorder(js, kids[n])

\* the own context of the job registered as name: group -> (param -> value)
OwnContext(js, name) == JobOf(js, name).context.map

\* first writer wins along order: every group and parameter some job of
\* order defines, with the value of the first job of order that defines it
FirstWriterWins(js, order) ==
    LET defines(i, g, p) ==
            /\ g \in DOMAIN OwnContext(js, order[i])
            /\ p \in DOMAIN OwnContext(js, order[i])[g]
        groups == UNION {DOMAIN OwnContext(js, order[i]) : i \in DOMAIN order}
        params(g) ==
            UNION {DOMAIN OwnContext(js, order[i])[g] :
                     i \in {k \in DOMAIN order : g \in DOMAIN OwnContext(js, order[k])}}
        first(g, p) ==
            CHOOSE i \in DOMAIN order :
                /\ defines(i, g, p)
                /\ \A k \in 1..(i - 1) : ~defines(k, g, p)
    IN  [g \in groups |->
            [p \in params(g) |-> OwnContext(js, order[first(g, p)])[g][p]]]

\* a completed get_merged_context
Merged ==
    /\ result.op = "get_merged_context"
    /\ result.status = "ok"

\* C3: the merged context of a job is first-writer-wins over the
\* depth-first traversal of the job and its children: every group and
\* parameter has the value of the job's own context if the job defines it,
\* otherwise that of the first child, recursively merged, that defines it;
\* the contexts are those the jobs hold when the call starts.
C3_FirstWriterWins ==
    Merged
    => result.val = FirstWriterWins(result.before, Preorder(result.before, result.job))

\* a merged context of A in which a child defines a parameter A defines
\* too, a child adds a parameter to a group of A, and a child brings a
\* group A does not have
C3_Witness ==
    /\ Merged
    /\ result.job = "A"
    /\ AllParsed(result.before)
    /\ \E kid \in KidsOf(result.before, "A") : \E g \in DOMAIN result.val :
          /\ g \in DOMAIN OwnContext(result.before, "A")
          /\ g \in DOMAIN OwnContext(result.before, kid)
          /\ "x" \in DOMAIN OwnContext(result.before, "A")[g]
          /\ "x" \in DOMAIN OwnContext(result.before, kid)[g]
          /\ "y" \notin DOMAIN OwnContext(result.before, "A")[g]
          /\ "y" \in DOMAIN result.val[g]
    /\ \E g \in DOMAIN result.val : g \notin DOMAIN OwnContext(result.before, "A")

\* the calls C4 lists
Aggregates ==
    {"review", "get_merged_context", "get_database_info", "get_master_jobs",
     "tree_view", "get_all_tables", "dump_sql"}

\* what parse stores in a job
Parsed(job) ==
    [nodes |-> job.nodes, connections |-> job.connections,
     context |-> job.context, children |-> job.children, tables |-> job.tables]

\* C4: once every job is parsed, an aggregate call leaves the nodes,
\* connections, context, children and tables of every job as they were.
C4_NeverMutated ==
    (result.op \in Aggregates /\ AllParsed(result.before))
    => \A p \in DOMAIN jobs : Parsed(jobs[p]) = Parsed(result.before[p])

\* C9: get_merged_context and tree_view return what they return once every
\* job of the registry is parsed, whether or not the jobs were parsed
\* before the call.
C9_LazyTransparent ==
    (result.op \in {"get_merged_context", "tree_view"} /\ result.status = "ok")
    => LET parsed == ParseAll(result.before, Len(versions.keys)).jobs
       IN  result.val =
             IF result.op = "tree_view"
             THEN tree_view(parsed, result.job, 1).val
             ELSE get_merged_context(parsed, result.job).val

(***************************************************************************)
(* SpecParse: the parse of one job.  A project of two jobs; the file of A  *)
(* holds a context group, a tRunJob node invoking B and further nodes, and *)
(* is well formed, unreadable, or lacks a parameter parse reads; its       *)
(* content may change between two calls.                                   *)
(***************************************************************************)
ParseListing == <<PathOf("A"), PathOf("B")>>
ParsePaths == Range(ParseListing)

DefaultOfA == ContextElem("Default", <<CP("x", "A")>>)
JavaOfA == NodeElem("tJava", <<EP("UNIQUE_NAME", "tJava_1")>>)
TableOfA ==
    NodeElem("tMysqlInput",
             <<EP("UNIQUE_NAME", "tMysqlInput_1"), EP("DBNAME", "db"),
               EP("TABLE", "t")>>)
TriggerOfA ==
    ConnElem("SUBJOB_OK", <<EP("ACTIVATE", "true"), EP("UNIQUE_NAME", "OnSubjobOk1")>>)

\* a well-formed document of A
WellFormed == JobDoc(<<DefaultOfA>>, <<"B">>, <<JavaOfA, TableOfA, TriggerOfA>>)

\* ET.parse raises on the stream
Unreadable == Document("malformed", "ok", <<>>)

\* close on the stream reports a status
CloseFails == Document("ok", "error", WellFormed.root)

\* the last node has no UNIQUE_NAME
NoUniqueName == JobDoc(<<DefaultOfA>>, <<"B">>, <<TableOfA, NodeElem("tJava", <<>>)>>)

\* the tRunJob node has no PROCESS
NoProcess ==
    Document("ok", "ok",
             <<DefaultOfA, TriggerOfA,
               NodeElem("tRunJob", <<EP("UNIQUE_NAME", "tRunJob_1")>>)>>)

DocsOfA == {WellFormed, Unreadable, CloseFails, NoUniqueName, NoProcess}

ParseDocs ==
    {(PathOf("A") :> a) @@ (PathOf("B") :> JobDoc(<<>>, <<>>, <<>>)) : a \in DocsOfA}

InitParse == Project(ParseListing, ParseDocs)

NextParse ==
    \/ \E p \in ParsePaths : DoParse(p)
    \/ \E p \in ParsePaths : DoJobReview(p)
    \/ \E p \in ParsePaths : DoJobDatabaseInfo(p)
    \/ \E p \in ParsePaths : DoJobDumpSql(p)
    \/ \E p \in ParsePaths, node \in {"tJava_1", "tJava_2"} : DoGetNode(p, node)
    \/ \E p \in ParsePaths : DoIterate(p)
    \/ DoAllTables
    \/ DoMasterJobs
    \/ DoMergedContext("A")
    \/ DoTreeView("A")
    \/ \E doc \in DocsOfA : ContentChanges(PathOf("A"), doc)

SpecParse == InitParse /\ [][NextParse]_vars

\* the calls that start with self.parse() on the jobs they read
Parsing ==
    {"parse", "job.review", "job.get_database_info", "job.dump_sql",
     "job.__getitem__", "job.__iter__", "get_all_tables", "get_master_jobs"}

C8_NoPartialResult ==
    (result.op = "parse" /\ result.status # "ok")
    => Parsed(jobs[result.job]) =
         Parsed(TalendJob(jobs[result.job].name, result.job, jobs[result.job].version))

(***************************************************************************)
(* SpecCycle: cycles of invocation.  A invokes up to two of A, B and C, B *)
(* and C at most one of them, themselves included; every job reads one     *)
(* database whose host is named as the job.                                *)
(***************************************************************************)
CycleKids(name) ==
    IF name = "A"
    THEN {<<>>, <<"A">>, <<"B">>, <<"C">>, <<"A", "B">>, <<"A", "C">>, <<"B", "C">>}
    ELSE {<<>>, <<"A">>, <<"B">>, <<"C">>}

DatabaseOf(name) ==
    NodeElem("tMysqlInput",
             <<EP("UNIQUE_NAME", "tMysqlInput_1"), EP("HOST", name),
               EP("DBNAME", "db"), EP("USER", "etl")>>)

CycleDocsOf(name) ==
    {JobDoc(<<>>, kids, <<DatabaseOf(name)>>) : kids \in CycleKids(name)}

CycleDocs ==
    {(PathOf("A") :> a) @@ (PathOf("B") :> b) @@ (PathOf("C") :> c) :
        a \in CycleDocsOf("A"), b \in CycleDocsOf("B"), c \in CycleDocsOf("C")}

InitCycle == Project(Listing, CycleDocs)

NextCycle ==
    \/ DoAllTables
    \/ \E job \in JobNames : DoMergedContext(job)
    \/ \E root \in JobNames : DoTreeView(root)
    \/ \E job \in JobNames : DoDatabaseInfo(job, TRUE)
    \/ \E job \in JobNames : DoReview(job, TRUE)

SpecCycle == InitCycle /\ [][NextCycle]_vars

\* a cycle of invocations is reachable from job: some job reached from it
\* is reached again from its own children
Cyclic(js, job) ==
    \E m \in Reach(js, job) :
        m \in ReachIn(js, KidsOf(js, m), Cardinality(Registered))

RECURSIVE TriplesAlong(_, _, _)
\* the (host, database, user) triples of the first n jobs of order, one
\* job after the other
TriplesAlong(js, order, n) ==
    IF n = 0 THEN <<>>
    ELSE TriplesAlong(js, order, n - 1)
         \o DatabaseTriples(JobOf(js, order[n]), Len(JobOf(js, order[n]).nodes.keys))

\* one of the four traversals of the children, called on a registered job
\* with every job parsed
Traversal ==
    /\ result.op \in {"get_merged_context", "tree_view", "get_database_info", "review"}
    /\ result.children
    /\ result.job \in Registered
    /\ AllParsed(result.before)

\* C10: with every job parsed and every child registered, each of the four
\* traversals ends without a RecursionError exactly when no cycle of
\* invocations is reachable from the job, and then it ends well; the
\* database info holds the triples of every visit of the depth-first
\* traversal, no child being skipped.
C10_UnguardedCycles ==
    Traversal
    => /\ result.status = "RecursionError" <=> Cyclic(result.before, result.job)
       /\ ~Cyclic(result.before, result.job)
          => /\ result.status = "ok"
             /\ result.op = "get_database_info"
                => LET order == Preorder(result.before, result.job)
                   IN  result.val = TriplesAlong(result.before, order, Len(order))

\* the database info of a job that invokes itself, whose own triple is in
\* the accumulator when the child is looked up, ends in a RecursionError
C10_Witness ==
    /\ Traversal
    /\ result.op = "get_database_info"
    /\ result.job \in KidsOf(result.before, result.job)
    /\ result.status = "RecursionError"

(***************************************************************************)
(* SpecRules: the rules of one job.  The file of A holds no context group, *)
(* one or two, a node n1 of the Teradata or the MySQL family with or       *)
(* without HOST, PASS, TYPE and USE_EXISTING_CONNECTION, and with or       *)
(* without a second node of the Teradata family.                           *)
(***************************************************************************)
RulesListing == <<PathOf("A")>>

\* an elementParameter that may be absent
Opt(name, value) == IF value = None THEN <<>> ELSE <<EP(name, value)>>

RuleNode ==
    {NodeElem(cn, <<EP("UNIQUE_NAME", "n1")>> \o Opt("HOST", host) \o Opt("PASS", pass)
                  \o Opt("USE_EXISTING_CONNECTION", uec) \o Opt("TYPE", type)) :
        cn \in {"tTeradataInput", "tMysqlInput"},
        host \in {None, "context.EDW_HOST", "h"},
        pass \in {None, "pEncrypt"},
        uec \in {None, "true", "false", ""},
        type \in {None, "Teradata"}}

SecondNode == {<<>>, <<NodeElem("tTeradataRow", <<EP("UNIQUE_NAME", "n2")>>)>>}

EdwGroup(name) ==
    ContextElem(name, <<CP("EDW_HOST", "h"), CP("EDW_USER", "u"), CP("EDW_PASS", "p")>>)

RuleContexts ==
    {<<>>,
     <<EdwGroup("Default")>>,
     <<ContextElem("Default", <<CP("EDW_HOST", "h")>>)>>,
     <<ContextElem("Default", <<CP("EDW_HOST", "h")>>), EdwGroup("Prod")>>}

RuleDocs ==
    {PathOf("A") :> JobDoc(contexts, <<>>, <<node>> \o second) :
        contexts \in RuleContexts, node \in RuleNode, second \in SecondNode}

InitRules == Project(RulesListing, RuleDocs)

NextRules ==
    \/ DoParse(PathOf("A"))
    \/ DoJobReview(PathOf("A"))
    \/ \E children \in BOOLEAN : DoReview("A", children)

SpecRules == InitRules /\ [][NextRules]_vars

\* a review of a job that is parsed when the review ends
Reviewed ==
    /\ result.op = "job.review"
    /\ jobs[result.job].parsed

\* the list the review reports under the rule, empty when it reports none
Reported(rule) ==
    IF result.status = "ok" /\ rule \in DOMAIN result.val
    THEN result.val[rule][jobs[result.job].name]
    ELSE <<>>

\* how many violations of list name the component
Naming(list, component) ==
    Cardinality({i \in DOMAIN list : list[i].component = component})

\* the node is to be reported under the vendor-credential rule, as C11
\* states it
VendorCredential(job, params, rule) ==
    /\ job.use_teradata
    /\ Contains(Lower(params["_componentName"]), "teradata")
    /\ ~("USE_EXISTING_CONNECTION" \in DOMAIN params
         /\ params["USE_EXISTING_CONNECTION"] = "true")
    /\ rule \in DOMAIN params
    /\ params[rule] \notin Range(edw_params[rule])

\* the job has a context group for the context rule to read
HasGroup(job) == job.context.keys # <<>>

\* C11: the review of a parsed job (here: one that has a context group)
\* completes without error, and under each of HOST, USER and PASS it
\* reports one violation naming a node exactly when the job's flag is
\* true, the node is of the Teradata family, the node does not declare
\* USE_EXISTING_CONNECTION=true and the node's value of the parameter is
\* not an acceptable one; otherwise none.
C11_VendorCredentials ==
    (Reviewed /\ HasGroup(jobs[result.job]))
    => /\ result.status = "ok"
       /\ \A node \in DOMAIN jobs[result.job].nodes.map :
          \A rule \in DOMAIN edw_params :
             Naming(Reported(rule), node) =
                IF VendorCredential(jobs[result.job],
                                    jobs[result.job].nodes.map[node], rule)
                THEN 1 ELSE 0

\* the keys of edw_context the first context group of the job lacks, all
\* three when the job has no group
MissingKeys(job) ==
    {key \in Range(edw_context) :
        \/ job.context.keys = <<>>
        \/ key \notin DOMAIN job.context.map[job.context.keys[1]]}

\* C12: the review of a parsed job whose flag is true (here: one in which
\* every node reported under HOST, USER or PASS has a TYPE) returns under
\* CONTEXT one violation of the component 'Context' for each of EDW_HOST,
\* EDW_USER and EDW_PASS the first context group lacks (all three when the
\* job has no group) and nothing else; a job whose flag is false gets no
\* CONTEXT violation.
C12_ContextComplete ==
    (Reviewed /\ ~MissingType(jobs[result.job]))
    => IF jobs[result.job].use_teradata
       THEN /\ result.status = "ok"
            /\ Len(Reported("CONTEXT")) = Cardinality(MissingKeys(jobs[result.job]))
            /\ \A key \in MissingKeys(jobs[result.job]) :
                  \E i \in DOMAIN Reported("CONTEXT") :
                     Reported("CONTEXT")[i] =
                        [component |-> "Context",
                         message |-> "Teradata job detected but missing context parameter '"
                                     \o key \o "'"]
       ELSE Reported("CONTEXT") = <<>>

\* what the code does for C11: where every reported node has a TYPE and
\* the job has a context group, the review ends well and reports a node
\* of the Teradata family under HOST, USER or PASS exactly when the node
\* has no USE_EXISTING_CONNECTION or has it equal to 'false' and its value
\* is not an acceptable one
EdwRuleWhereChecked ==
    (Reviewed /\ ~MissingType(jobs[result.job])
     /\ ~(jobs[result.job].use_teradata /\ ~HasGroup(jobs[result.job])))
    => /\ result.status = "ok"
       /\ \A node \in DOMAIN jobs[result.job].nodes.map :
          \A rule \in DOMAIN edw_params :
             Naming(Reported(rule), node) =
                IF NodeHit(jobs[result.job], jobs[result.job].nodes.map[node], rule)
                THEN 1 ELSE 0

\* what the code does for C12: where the job has a context group and no
\* reported node lacks a TYPE, CONTEXT is as C12 states it
ContextRuleWithGroup ==
    (Reviewed /\ HasGroup(jobs[result.job])) => C12_ContextComplete

====
